---- MODULE Spec2Model ----
(***************************************************************************)
(* Model of the job vertical slice of jobly: the partial-update fragment   *)
(* builder (helpers/sql.js) and the Job data-access class (models/job.js). *)
(*                                                                         *)
(* JavaScript values are represented as follows.                           *)
(*   - an object literal is the sequence of its own [key, val] pairs in    *)
(*     insertion order, keys pairwise distinct;                            *)
(*   - a lookup table (jsToSql) is a function from its own keys to strings;*)
(*   - the result of a property read is <<>> for undefined and <<v>> for   *)
(*     the value v;                                                        *)
(*   - text that is matched character by character (a job title, a title   *)
(*     filter) is a sequence of one-character strings;                     *)
(*   - SQL NULL / JS null in a numeric column is Null;                     *)
(*   - equity is a NUMERIC counted in hundredths (4 is 0.04).              *)
(***************************************************************************)
EXTENDS Integers, Sequences, FiniteSets, TLC

VARIABLES jobs, nextId, pc, last

vars == <<jobs, nextId, pc, last>>

(***************************************************************************)
(* Bounds of the model.                                                    *)
(***************************************************************************)
\* longest dataToUpdate object handed to sqlForPartialUpdate
MaxKeys == 2
\* highest id the jobs_id_seq sequence hands out
MaxId == 2
\* longest title filter handed to findFiltered
MaxTitleLen == 2

\* JS null / SQL NULL in salary and equity
Null == -1

(***************************************************************************)
(* JavaScript object helpers used by sqlForPartialUpdate.                  *)
(***************************************************************************)
Range(s) == {s[i] : i \in 1..Len(s)}

\* the array index a property key denotes, -1 when it is not an array index
KeyIndex(k) == CASE k = "0" -> 0 [] k = "1" -> 1 [] OTHER -> -1

IsIndexKey(k) == KeyIndex(k) >= 0

RECURSIVE IndexKeysAscending(_)
IndexKeysAscending(S) ==
    IF S = {} THEN <<>>
    ELSE LET m == CHOOSE k \in S : \A j \in S : KeyIndex(k) <= KeyIndex(j)
         IN  <<m>> \o IndexKeysAscending(S \ {m})

InsertionKeys(obj) == [i \in 1..Len(obj) |-> obj[i].key]

\* Object.keys: integer-like keys in ascending numeric order first, then the
\* other string keys in insertion order (OrdinaryOwnPropertyKeys)
ObjectKeys(obj) ==
    IndexKeysAscending({k \in Range(InsertionKeys(obj)) : IsIndexKey(k)})
        \o SelectSeq(InsertionKeys(obj), LAMBDA k : ~IsIndexKey(k))

\* the position and the value of own property k of obj
OwnIndex(obj, k) == CHOOSE i \in 1..Len(obj) : obj[i].key = k

OwnProperty(obj, k) == obj[OwnIndex(obj, k)].val

\* Object.values: the values in the order of Object.keys
ObjectValues(obj) ==
    LET keys == ObjectKeys(obj)
    IN  [i \in 1..Len(keys) |-> OwnProperty(obj, keys[i])]

\* String(Object.prototype.constructor), what a template literal renders
ObjectFunctionText == "function Object() { [native code] }"

\* properties every object literal inherits from Object.prototype
InheritedKeys == {"constructor"}

\* table[k]: own property, else inherited property, else undefined
PropertyRead(table, k) ==
    IF k \in DOMAIN table THEN <<table[k]>>
    ELSE IF k \in InheritedKeys THEN <<ObjectFunctionText>>
    ELSE <<>>

\* truthiness of a property read: undefined and "" are falsy
Truthy(v) == v # <<>> /\ v[1] # ""

(***************************************************************************)
(* helpers/sql.js: sqlForPartialUpdate                                     *)
(***************************************************************************)
\* a variant that never rejects
NoDataNever(keys) == FALSE

\* keys.length === 0
NoData(keys) == Len(keys) = 0

\* a variant with 0-based placeholders
PlaceholderZeroBased(idx) == idx

\* $${idx + 1}
Placeholder(idx) == idx + 1

\* a variant that ignores the lookup table
ColumnNameUnmapped(jsToSql, colName) == colName

\* jsToSql[colName] || colName
ColumnName(jsToSql, colName) ==
    LET v == PropertyRead(jsToSql, colName)
    IN  IF Truthy(v) THEN v[1] ELSE colName

\* One fragment "<col>"=$<ph>; key records the key the fragment was built for.
\* setCols is kept as the list of fragments that cols.join(", ") renders.
sqlForPartialUpdate(dataToUpdate, jsToSql) ==
    LET keys == ObjectKeys(dataToUpdate)
    IN  IF NoData(keys)
        THEN [err |-> "BadRequest"]
        ELSE [err     |-> "none",
              setCols |-> [i \in 1..Len(keys) |->
                             [key |-> keys[i],
                              col |-> ColumnName(jsToSql, keys[i]),
                              ph  |-> Placeholder(i - 1)]],
              values  |-> ObjectValues(dataToUpdate)]

(***************************************************************************)
(* Inputs of the fragment builder.                                         *)
(***************************************************************************)
SqlKeys == {"firstName", "age", "0", "1", "constructor"}
SqlVals == {"Aliya", "Smith"}
MapKeys == {"firstName", "age"}
MapVals == {"first_name", ""}

DistinctKeys(obj) == \A i, j \in 1..Len(obj) : obj[i].key = obj[j].key => i = j

ObjectsOfSize(n) ==
    {obj \in [1..n -> [key : SqlKeys, val : SqlVals]] : DistinctKeys(obj)}

DataInputs == UNION {ObjectsOfSize(n) : n \in 0..MaxKeys}

MapInputs == UNION {[D -> MapVals] : D \in SUBSET MapKeys}

Clients == {"a", "b"}

NoCall == [op |-> "none"]

InitStore ==
    /\ jobs = <<>>
    /\ nextId = 1
    /\ pc = [c \in Clients |-> [at |-> "idle"]]

SqlInit == InitStore /\ last = NoCall

\* one call of sqlForPartialUpdate
SqlCall ==
    \E d \in DataInputs, m \in MapInputs :
        /\ last = NoCall
        /\ last' = [op |-> "sqlForPartialUpdate", data |-> d, jsToSql |-> m,
                    res |-> sqlForPartialUpdate(d, m)]
        /\ UNCHANGED <<jobs, nextId, pc>>

SqlNext == SqlCall

SpecSql == SqlInit /\ [][SqlNext]_vars

(***************************************************************************)
(* Properties of sqlForPartialUpdate (checked under SpecSql).              *)
(***************************************************************************)
SqlReturned == last.op = "sqlForPartialUpdate" /\ last.res.err = "none"

\* k1 is listed before k2 by Object.keys of obj
ListedBefore(obj, k1, k2) ==
    \/ IsIndexKey(k1) /\ IsIndexKey(k2) /\ KeyIndex(k1) < KeyIndex(k2)
    \/ IsIndexKey(k1) /\ ~IsIndexKey(k2)
    \/ ~IsIndexKey(k1) /\ ~IsIndexKey(k2) /\ OwnIndex(obj, k1) < OwnIndex(obj, k2)

\* C1 as stated: for a non-empty dataToUpdate the result has one fragment
\* per key, the i-th fragment is the one of the i-th inserted key and carries
\* placeholder $i, and values[i] is the value of the i-th inserted key.
C1_InsertionOrder ==
    (last.op = "sqlForPartialUpdate" /\ Len(last.data) > 0) =>
        /\ last.res.err = "none"
        /\ Len(last.res.setCols) = Len(last.data)
        /\ Len(last.res.values) = Len(last.data)
        /\ \A i \in 1..Len(last.data) :
              /\ last.res.setCols[i].key = last.data[i].key
              /\ last.res.setCols[i].ph = i
              /\ last.res.values[i] = last.data[i].val

\* C1 amended: for a non-empty dataToUpdate the result has one fragment per
\* key, the fragments are in Object.keys order (integer-like keys ascending,
\* then the other keys in insertion order), the i-th fragment carries
\* placeholder $i, and values[i] is the value of the key of the i-th fragment.
C1_PlaceholdersAligned ==
    (last.op = "sqlForPartialUpdate" /\ Len(last.data) > 0) =>
        /\ last.res.err = "none"
        /\ Len(last.res.setCols) = Len(last.data)
        /\ Len(last.res.values) = Len(last.data)
        /\ {last.res.setCols[i].key : i \in 1..Len(last.data)}
              = {last.data[i].key : i \in 1..Len(last.data)}
        /\ \A i \in 1..Len(last.data) :
              /\ last.res.setCols[i].ph = i
              /\ last.res.values[last.res.setCols[i].ph]
                    = OwnProperty(last.data, last.res.setCols[i].key)
        /\ \A i, j \in 1..Len(last.data) :
              i < j => ListedBefore(last.data, last.res.setCols[i].key,
                                    last.res.setCols[j].key)

\* a call whose object has an integer-like key inserted after another key,
\* with different values under the two keys
C1_Witness ==
    /\ SqlReturned
    /\ Len(last.data) = 2
    /\ ~IsIndexKey(last.data[1].key)
    /\ IsIndexKey(last.data[2].key)
    /\ last.data[1].val # last.data[2].val
    /\ last.res.setCols[1].key = last.data[2].key

\* C2: a dataToUpdate without keys is rejected with BadRequest whatever the
\* lookup table is, and nothing is returned.
C2_EmptyIsBadRequest ==
    (last.op = "sqlForPartialUpdate" /\ Len(last.data) = 0) =>
        /\ last.res.err = "BadRequest"
        /\ DOMAIN last.res = {"err"}

\* a rejected call with an empty object and a non-empty lookup table
C2_Witness ==
    /\ last.op = "sqlForPartialUpdate"
    /\ last.data = <<>>
    /\ DOMAIN last.jsToSql # {}
    /\ last.res.err = "BadRequest"

\* C3: the column of a fragment is fieldNameMap[key] when the key is in
\* fieldNameMap and the key's own name when it is absent.
C3_MappedIffPresent ==
    SqlReturned =>
        \A i \in 1..Len(last.res.setCols) :
            LET f == last.res.setCols[i]
            IN  f.col = IF f.key \in DOMAIN last.jsToSql
                        THEN last.jsToSql[f.key] ELSE f.key

(***************************************************************************)
(* The jobs table behind db.query.  A row is                               *)
(* [id, title, salary, equity, company_handle]; jobs lists the rows in     *)
(* the order the table scans them.                                         *)
(***************************************************************************)
Columns == {"id", "title", "salary", "equity", "company_handle"}

Ids(rows) == {rows[i].id : i \in 1..Len(rows)}

\* id is the primary key of jobs
PrimaryKeyHolds(rows) ==
    \A i, j \in 1..Len(rows) : rows[i].id = rows[j].id => i = j

\* RETURNING / SELECT id, title, salary, equity, company_handle AS "companyHandle"
Returned(row) ==
    [id |-> row.id, title |-> row.title, salary |-> row.salary,
     equity |-> row.equity, companyHandle |-> row.company_handle]

ReturnedRows(rows) == [i \in 1..Len(rows) |-> Returned(rows[i])]

\* INSERT INTO jobs (title, salary, equity, company_handle)
\*   VALUES ($1, $2, $3, $4) RETURNING ...; id is drawn from the sequence
ExecInsert(rows, id, params) ==
    LET row == [id |-> id, title |-> params[1], salary |-> params[2],
                equity |-> params[3], company_handle |-> params[4]]
        new == Append(rows, row)
    IN  IF PrimaryKeyHolds(new)
        THEN [err |-> "none", rows |-> <<Returned(row)>>, table |-> new]
        ELSE [err |-> "StoreError", rows |-> <<>>, table |-> rows]

\* SELECT ... FROM jobs WHERE id = $1
ExecSelectById(rows, params) ==
    ReturnedRows(SelectSeq(rows, LAMBDA r : r.id = params[1]))

RECURSIVE ApplySet(_, _, _)
\* the row after the assignments of a SET clause, left to right
ApplySet(row, set, params) ==
    IF set = <<>> THEN row
    ELSE ApplySet([row EXCEPT ![set[1].col] = params[set[1].ph]],
                  Tail(set), params)

\* a statement the store refuses to run: an empty SET clause, an unknown
\* column, a column assigned twice, a placeholder without a parameter
MalformedUpdate(set, whereIdx, params) ==
    \/ set = <<>>
    \/ \E i \in 1..Len(set) :
         set[i].col \notin Columns \/ set[i].ph \notin 1..Len(params)
    \/ \E i, j \in 1..Len(set) : i # j /\ set[i].col = set[j].col
    \/ whereIdx \notin 1..Len(params)

\* UPDATE jobs SET <set> WHERE id = $<whereIdx> RETURNING ...
ExecUpdate(rows, set, whereIdx, params) ==
    IF MalformedUpdate(set, whereIdx, params)
    THEN [err |-> "StoreError", rows |-> <<>>, table |-> rows]
    ELSE LET hit == SelectSeq([i \in 1..Len(rows) |-> i],
                              LAMBDA i : rows[i].id = params[whereIdx])
             new == [i \in 1..Len(rows) |->
                       IF i \in Range(hit) THEN ApplySet(rows[i], set, params)
                       ELSE rows[i]]
         IN  IF PrimaryKeyHolds(new)
             THEN [err |-> "none",
                   rows |-> [k \in 1..Len(hit) |-> Returned(new[hit[k]])],
                   table |-> new]
             ELSE [err |-> "StoreError", rows |-> <<>>, table |-> rows]

\* DELETE FROM jobs without its WHERE clause
ExecDeleteEveryRow(rows, params) == <<>>

\* DELETE FROM jobs WHERE id = $1
ExecDelete(rows, params) == SelectSeq(rows, LAMBDA r : r.id # params[1])


\* lower(c) for the letters of the model's alphabet
Lower(c) == CASE c = "A" -> "a" [] c = "B" -> "b" [] OTHER -> c

RECURSIVE LikeMatch(_, _)
\* text ILIKE pattern: % matches any run of characters, _ any one character,
\* every other character itself whatever its case
LikeMatch(pattern, text) ==
    IF pattern = <<>> THEN text = <<>>
    ELSE IF pattern[1] = "%"
         THEN \/ LikeMatch(Tail(pattern), text)
              \/ text # <<>> /\ LikeMatch(pattern, Tail(text))
    ELSE IF pattern[1] = "_"
         THEN text # <<>> /\ LikeMatch(Tail(pattern), Tail(text))
    ELSE /\ text # <<>>
         /\ Lower(pattern[1]) = Lower(text[1])
         /\ LikeMatch(Tail(pattern), Tail(text))

\* one expression of a WHERE clause on a row; a comparison with NULL is not
\* true
WhereHolds(row, expr, params) ==
    CASE expr.test = "title ILIKE" -> LikeMatch(params[expr.ph], row.title)
      [] expr.test = "salary >=" ->
            row.salary # Null /\ params[expr.ph] # Null
                /\ row.salary >= params[expr.ph]
      [] expr.test = "equity >" ->
            row.equity # Null /\ params[expr.ph] # Null
                /\ row.equity > params[expr.ph]

\* the position of a company handle in the collation
HandleRank(h) == CASE h = "c1" -> 1 [] h = "c2" -> 2 [] OTHER -> 3

\* the rows as the scan gives them, as a SELECT without ORDER BY would
OrderByScanOrder(rows) == rows

RECURSIVE OrderByCompanyHandle(_)
\* ORDER BY company_handle; rows of one company keep their scan order
OrderByCompanyHandle(rows) ==
    IF rows = <<>> THEN <<>>
    ELSE LET low == CHOOSE i \in 1..Len(rows) :
                      /\ \A j \in 1..Len(rows) :
                           HandleRank(rows[i].company_handle)
                               <= HandleRank(rows[j].company_handle)
                      /\ \A j \in 1..(i - 1) :
                           HandleRank(rows[j].company_handle)
                               > HandleRank(rows[i].company_handle)
             rest == [k \in 1..(Len(rows) - 1) |->
                        IF k < low THEN rows[k] ELSE rows[k + 1]]
         IN  <<rows[low]>> \o OrderByCompanyHandle(rest)

\* the SELECT of findAll without its ORDER BY clause
ExecSelectAllUnordered(rows) == ReturnedRows(rows)

\* SELECT ... FROM jobs ORDER BY company_handle
ExecSelectAll(rows) == ReturnedRows(OrderByCompanyHandle(rows))

\* SELECT ... FROM jobs [WHERE <e1> AND <e2> ...] ORDER BY company_handle
ExecSelectWhere(rows, where, params) ==
    ReturnedRows(OrderByCompanyHandle(
        SelectSeq(rows, LAMBDA r :
            \A i \in 1..Len(where) : WhereHolds(r, where[i], params))))

(***************************************************************************)
(* models/job.js: the Job class.  Each operator is the outcome of one call *)
(* on the table `rows`: the error thrown ("none" when the call returns),   *)
(* the value returned, the table afterwards and the statements issued.     *)
(***************************************************************************)
\* JS undefined where a job record is expected
Undefined == [undefined |-> TRUE]

\* rows[0]
FirstRow(rows) == IF Len(rows) = 0 THEN Undefined ELSE rows[1]

\* a variant that never reports a missing row
NoRowNever(job) == FALSE

\* !job
NoRow(job) == job = Undefined

\* Job.create
JobCreate(rows, id, data) ==
    LET params == <<data.title, data.salary, data.equity, data.companyHandle>>
        result == ExecInsert(rows, id, params)
        stmt   == [kind |-> "INSERT", params |-> params]
    IN  IF result.err # "none"
        THEN [err |-> result.err, table |-> rows, stmts |-> <<stmt>>]
        ELSE [err |-> "none", value |-> FirstRow(result.rows),
              table |-> result.table, stmts |-> <<stmt>>]

\* Job.get
JobGet(rows, id) ==
    LET jobRes == ExecSelectById(rows, <<id>>)
        stmt   == [kind |-> "SELECT", params |-> <<id>>]
        job    == FirstRow(jobRes)
    IN  IF NoRow(job)
        THEN [err |-> "NotFound", table |-> rows, stmts |-> <<stmt>>]
        ELSE [err |-> "none", value |-> job,
              table |-> rows, stmts |-> <<stmt>>]

\* the lookup table Job.update hands to sqlForPartialUpdate
JobJsToSql == [companyHandle |-> "company_handle"]

\* "$" + values.length + 1, the string concatenation JS does without the
\* parentheses: "$" followed by the digits of values.length and a 1
IDVarIdxConcatenated(values) == Len(values) * 10 + 1

\* "$" + (values.length + 1)
IDVarIdx(values) == Len(values) + 1

\* Job.update
JobUpdate(rows, id, data) ==
    LET sql == sqlForPartialUpdate(data, JobJsToSql)
    IN  IF sql.err # "none"
        THEN [err |-> sql.err, table |-> rows, stmts |-> <<>>]
        ELSE LET params == sql.values \o <<id>>
                 stmt   == [kind |-> "UPDATE", set |-> sql.setCols,
                            whereIdx |-> IDVarIdx(sql.values),
                            params |-> params]
                 result == ExecUpdate(rows, stmt.set, stmt.whereIdx, params)
                 job    == FirstRow(result.rows)
             IN  IF result.err # "none"
                 THEN [err |-> result.err, table |-> rows, stmts |-> <<stmt>>]
                 ELSE IF NoRow(job)
                 THEN [err |-> "NotFound", table |-> result.table,
                       stmts |-> <<stmt>>]
                 ELSE [err |-> "none", value |-> job,
                       table |-> result.table, stmts |-> <<stmt>>]

\* a variant that never reports a missing job
RowMissingNever(rowCount) == FALSE

\* !exists.rowCount
RowMissing(rowCount) == rowCount = 0

\* Job.remove up to its first await: the existence read
JobRemoveRead(rows, id) ==
    LET exists == ExecSelectById(rows, <<id>>)
        stmt   == [kind |-> "SELECT", params |-> <<id>>]
    IN  IF RowMissing(Len(exists))
        THEN [err |-> "NotFound", rowCount |-> Len(exists), stmts |-> <<stmt>>]
        ELSE [err |-> "none", rowCount |-> Len(exists), stmts |-> <<stmt>>]

\* Job.remove after the existence read: the delete; returns undefined
JobRemoveDelete(rows, id) ==
    [err |-> "none", table |-> ExecDelete(rows, <<id>>),
     deleted |-> Len(rows) - Len(ExecDelete(rows, <<id>>)),
     stmts |-> <<[kind |-> "DELETE", params |-> <<id>>]>>]


\* Job.findAll
JobFindAll(rows) ==
    [err |-> "none", value |-> ExecSelectAll(rows), table |-> rows,
     stmts |-> <<[kind |-> "SELECT", where |-> <<>>, params |-> <<>>]>>]

\* `%${title}%`
TitlePattern(title) == <<"%">> \o title \o <<"%">>

\* hasEquity as a JS condition
TruthyFlag(v) == v # <<>> /\ v[1] = TRUE

\* the state of the two arrays of Job.findFiltered after each of its three
\* if statements
WithTitle(q, title) ==
    IF title # <<>>
    THEN LET vals == Append(q.queryValues, TitlePattern(title[1]))
         IN  [queryValues |-> vals,
              whereExpressions |->
                  Append(q.whereExpressions,
                         [test |-> "title ILIKE", ph |-> Len(vals)])]
    ELSE q

WithMinSalary(q, minSalary) ==
    IF minSalary # <<>>
    THEN LET vals == Append(q.queryValues, minSalary[1])
         IN  [queryValues |-> vals,
              whereExpressions |->
                  Append(q.whereExpressions,
                         [test |-> "salary >=", ph |-> Len(vals)])]
    ELSE q

\* the hasEquity branch taken whenever the key is given, false included
WithHasEquityIfPresent(q, hasEquity) ==
    IF hasEquity # <<>>
    THEN LET vals == Append(q.queryValues, 0)
         IN  [queryValues |-> vals,
              whereExpressions |->
                  Append(q.whereExpressions,
                         [test |-> "equity >", ph |-> Len(vals)])]
    ELSE q

WithHasEquity(q, hasEquity) ==
    IF TruthyFlag(hasEquity)
    THEN LET vals == Append(q.queryValues, 0)
         IN  [queryValues |-> vals,
              whereExpressions |->
                  Append(q.whereExpressions,
                         [test |-> "equity >", ph |-> Len(vals)])]
    ELSE q

\* Job.findFiltered
JobFindFiltered(rows, filters) ==
    LET title     == PropertyRead(filters, "title")
        minSalary == PropertyRead(filters, "minSalary")
        hasEquity == PropertyRead(filters, "hasEquity")
        q == WithHasEquity(
               WithMinSalary(
                 WithTitle([queryValues |-> <<>>, whereExpressions |-> <<>>],
                           title),
                 minSalary),
               hasEquity)
        stmt == [kind |-> "SELECT", where |-> q.whereExpressions,
                 params |-> q.queryValues]
    IN  [err |-> "none",
         value |-> ExecSelectWhere(rows, stmt.where, stmt.params),
         table |-> rows, stmts |-> <<stmt>>]

(***************************************************************************)
(* Callers.  Every call but remove issues at most one statement and is one *)
(* step; remove awaits twice, so other calls run between its existence     *)
(* read and its delete.  pc[c] is where client c stands, last is the step  *)
(* taken last: its arguments, the table before it and its outcome.         *)
(***************************************************************************)
Companies == {"c1", "c2"}

CreateInputs ==
    {[title |-> <<"a">>, salary |-> 1, equity |-> 4, companyHandle |-> "c1"],
     [title |-> <<"b">>, salary |-> Null, equity |-> Null, companyHandle |-> "c2"]}

Pair(k, v) == [key |-> k, val |-> v]

\* the partialData objects handed to update: the empty object, title alone,
\* salary cleared, companyHandle together with a cleared equity, and the id
\* rewritten to the highest id of the sequence
UpdateInputs ==
    {<<>>,
     <<Pair("title", <<"b">>)>>,
     <<Pair("salary", Null)>>,
     <<Pair("companyHandle", "c2"), Pair("equity", Null)>>,
     <<Pair("id", MaxId)>>}

CallIds == 1..MaxId

Idle(c) == pc[c].at = "idle"

\* some client is free to start a call
SomeIdle == \E c \in Clients : Idle(c)

Init == InitStore /\ last = NoCall

Create ==
    \E data \in CreateInputs :
        /\ SomeIdle
        /\ nextId <= MaxId
        /\ LET r == JobCreate(jobs, nextId, data)
           IN  /\ jobs' = r.table
               /\ last' = [op |-> "create", data |-> data, pre |-> jobs, out |-> r]
        /\ nextId' = nextId + 1
        /\ UNCHANGED pc

Get ==
    \E id \in CallIds :
        /\ SomeIdle
        /\ LET r == JobGet(jobs, id)
           IN  /\ jobs' = r.table
               /\ last' = [op |-> "get", id |-> id, pre |-> jobs, out |-> r]
        /\ UNCHANGED <<nextId, pc>>

Update ==
    \E id \in CallIds, data \in UpdateInputs :
        /\ SomeIdle
        /\ LET r == JobUpdate(jobs, id, data)
           IN  /\ jobs' = r.table
               /\ last' = [op |-> "update", id |-> id, data |-> data,
                           pre |-> jobs, out |-> r]
        /\ UNCHANGED <<nextId, pc>>

RemoveRead(c) ==
    \E id \in CallIds :
        /\ Idle(c)
        /\ LET r == JobRemoveRead(jobs, id)
           IN  /\ pc' = IF r.err = "none"
                        THEN [pc EXCEPT ![c] = [at |-> "delete", id |-> id]]
                        ELSE pc
               /\ last' = [op |-> "remove", step |-> "read", client |-> c,
                           id |-> id, pre |-> jobs, out |-> r]
        /\ UNCHANGED <<jobs, nextId>>

RemoveDelete(c) ==
    /\ pc[c].at = "delete"
    /\ LET r == JobRemoveDelete(jobs, pc[c].id)
       IN  /\ jobs' = r.table
           /\ last' = [op |-> "remove", step |-> "delete", client |-> c,
                       id |-> pc[c].id, pre |-> jobs, out |-> r]
    /\ pc' = [pc EXCEPT ![c] = [at |-> "idle"]]
    /\ UNCHANGED nextId

\* One caller: calls run one after the other.
Next ==
    \/ Create
    \/ Get
    \/ Update
    \/ RemoveRead("a")
    \/ RemoveDelete("a")

Spec == Init /\ [][Next]_vars

\* Two callers: a call of one runs between the two statements of a remove of
\* the other.
RaceNext ==
    \/ Create
    \/ Get
    \/ \E c \in Clients : RemoveRead(c)
    \/ \E c \in Clients : RemoveDelete(c)

SpecRace == Init /\ [][RaceNext]_vars


(***************************************************************************)
(* Properties of the Job calls.                                            *)
(***************************************************************************)
\* the fields the documentation of Job.update lists for its data
DataFields == {"title", "salary", "equity", "companyHandle"}

\* the key of partialData that addresses a column
KeyOfColumn(col) == IF col = "company_handle" THEN "companyHandle" ELSE col

DataKeys(data) == {data[i].key : i \in 1..Len(data)}

RowIndex(rows, id) == CHOOSE i \in 1..Len(rows) : rows[i].id = id

UpdateOfExisting ==
    /\ last.op = "update"
    /\ last.id \in Ids(last.pre)
    /\ last.data # <<>>
    /\ DataKeys(last.data) \subseteq DataFields

\* C4: update(id, partialData) on a stored job, with a non-empty partialData
\* over the job's data fields, sets exactly the fields present to the given
\* values (null included), leaves the absent fields of the job and every
\* other job as they were, and returns the record as stored afterwards.
C4_UpdateChangesOnlyGivenFields ==
    UpdateOfExisting =>
        LET i   == RowIndex(last.pre, last.id)
            old == last.pre[i]
            new == jobs[i]
        IN  /\ last.out.err = "none"
            /\ Len(jobs) = Len(last.pre)
            /\ \A j \in 1..Len(jobs) : j # i => jobs[j] = last.pre[j]
            /\ \A col \in Columns :
                 new[col] = IF KeyOfColumn(col) \in DataKeys(last.data)
                            THEN OwnProperty(last.data, KeyOfColumn(col))
                            ELSE old[col]
            /\ last.out.value =
                 [id |-> new.id, title |-> new.title, salary |-> new.salary,
                  equity |-> new.equity, companyHandle |-> new.company_handle]

\* an update of one of two stored jobs that sets companyHandle and clears
\* equity while the job's title and salary stay
C4_Witness ==
    /\ UpdateOfExisting
    /\ Len(last.pre) = 2
    /\ DataKeys(last.data) = {"companyHandle", "equity"}
    /\ last.pre[RowIndex(last.pre, last.id)].equity # Null
    /\ last.pre[RowIndex(last.pre, last.id)].company_handle = "c1"
    /\ last.out.err = "none"
    /\ last.out.value.equity = Null
    /\ last.out.value.companyHandle = "c2"

\* C5: update(id, {}) fails with BadRequest for a stored and for an unknown
\* id, issues no statement and leaves the table as it was.
C5_EmptyUpdateIsBadRequest ==
    (last.op = "update" /\ last.data = <<>>) =>
        /\ last.out.err = "BadRequest"
        /\ last.out.stmts = <<>>
        /\ jobs = last.pre

\* an empty update of a stored job
C5_Witness ==
    /\ last.op = "update"
    /\ last.data = <<>>
    /\ last.id \in Ids(last.pre)
    /\ last.out.err = "BadRequest"

\* C6: update(id, partialData) with a non-empty partialData and an id no
\* stored job has fails with NotFound and leaves the table as it was.
C6_UpdateUnknownIsNotFound ==
    (last.op = "update" /\ last.data # <<>> /\ last.id \notin Ids(last.pre)) =>
        /\ last.out.err = "NotFound"
        /\ jobs = last.pre

\* a non-empty update of an unknown id while another job is stored
C6_Witness ==
    /\ last.op = "update"
    /\ last.data # <<>>
    /\ last.id \notin Ids(last.pre)
    /\ last.pre # <<>>
    /\ last.out.err = "NotFound"

RemoveReadStep == last.op = "remove" /\ last.step = "read"

RemoveDeleteStep == last.op = "remove" /\ last.step = "delete"

IssuesDelete(stmts) == \E i \in 1..Len(stmts) : stmts[i].kind = "DELETE"

\* C7: remove(id) with an id no stored job has fails with NotFound at its
\* existence read: the call ends there, it issues no DELETE and the table is
\* as it was.
C7_RemoveUnknownIsNotFound ==
    (RemoveReadStep /\ last.id \notin Ids(last.pre)) =>
        /\ last.out.err = "NotFound"
        /\ ~IssuesDelete(last.out.stmts)
        /\ Idle(last.client)
        /\ jobs = last.pre

\* a remove of an unknown id while another job is stored
C7_Witness ==
    /\ RemoveReadStep
    /\ last.id \notin Ids(last.pre)
    /\ last.pre # <<>>
    /\ last.out.err = "NotFound"

\* C8: in every interleaving of remove calls, no remove call returns
\* successfully when its DELETE removed no row.
C8_NoSilentSuccess ==
    (RemoveDeleteStep /\ last.out.err = "none") => last.out.deleted > 0

\* C9: get(id) returns the stored record with that id when there is one and
\* fails with NotFound exactly when there is none; it never changes the
\* table; and right after a create, get of the returned id yields the record
\* create returned.
C9_GetReturnsStoredOrNotFound ==
    /\ last.op = "get" =>
         /\ jobs = last.pre
         /\ (last.out.err = "NotFound") = (last.id \notin Ids(last.pre))
         /\ last.id \in Ids(last.pre) =>
              LET row == last.pre[RowIndex(last.pre, last.id)]
              IN  /\ last.out.err = "none"
                  /\ last.out.value =
                       [id |-> last.id, title |-> row.title,
                        salary |-> row.salary, equity |-> row.equity,
                        companyHandle |-> row.company_handle]
    /\ (last.op = "create" /\ last.out.err = "none") =>
         LET got == JobGet(jobs, last.out.value.id)
         IN  got.err = "none" /\ got.value = last.out.value

\* a get of one of two stored jobs
C9_Witness ==
    /\ last.op = "get"
    /\ Len(last.pre) = 2
    /\ last.id \in Ids(last.pre)
    /\ last.out.err = "none"
    /\ last.out.value.id = last.id


(***************************************************************************)
(* The reads that list jobs, on tables built by create.  A read leaves the *)
(* table as it is, so a read that follows a read adds no case: the reads   *)
(* are taken from the states a create (or nothing) led to.                 *)
(***************************************************************************)
FindJobs ==
    {[title |-> <<"a", "B">>, salary |-> 1, equity |-> 4, companyHandle |-> "c2"],
     [title |-> <<"b">>, salary |-> 2, equity |-> 0, companyHandle |-> "c1"],
     [title |-> <<"A">>, salary |-> Null, equity |-> Null, companyHandle |-> "c1"]}

FilterChars == {"a", "B", "_", "%"}

TitleFilters == UNION {[1..n -> FilterChars] : n \in 0..MaxTitleLen}

Option(S) == {<<>>} \cup {<<v>> : v \in S}

Field(k, opt) == IF opt = <<>> THEN <<>> ELSE (k :> opt[1])

\* the filters objects: each of title, minSalary and hasEquity present or not
FilterInputs ==
    {Field("title", t) @@ Field("minSalary", m) @@ Field("hasEquity", h) :
        t \in Option(TitleFilters), m \in Option({1, 2}),
        h \in Option(BOOLEAN)}

CreateForFind ==
    \E data \in FindJobs :
        /\ nextId <= MaxId
        /\ LET r == JobCreate(jobs, nextId, data)
           IN  /\ jobs' = r.table
               /\ last' = [op |-> "create", data |-> data, pre |-> jobs, out |-> r]
        /\ nextId' = nextId + 1
        /\ UNCHANGED pc

TableJustBuilt == last.op \in {"none", "create"}

FindAll ==
    /\ TableJustBuilt
    /\ last' = [op |-> "findAll", pre |-> jobs, out |-> JobFindAll(jobs)]
    /\ UNCHANGED <<jobs, nextId, pc>>

FindFiltered ==
    \E filters \in FilterInputs :
        /\ TableJustBuilt
        /\ last' = [op |-> "findFiltered", filters |-> filters, pre |-> jobs,
                    out |-> JobFindFiltered(jobs, filters)]
        /\ UNCHANGED <<jobs, nextId, pc>>

FindNext == CreateForFind \/ FindAll \/ FindFiltered

SpecFind == Init /\ [][FindNext]_vars


(***************************************************************************)
(* Properties of findFiltered (checked under SpecFind).                    *)
(***************************************************************************)
\* needle occurs in text, whatever the case of the letters
ContainsIgnoringCase(text, needle) ==
    \E i \in 0..(Len(text) - Len(needle)) :
        \A k \in 1..Len(needle) : Lower(text[i + k]) = Lower(needle[k])

\* the row satisfies every predicate the filters object states
Satisfies(row, filters) ==
    /\ "title" \in DOMAIN filters =>
         ContainsIgnoringCase(row.title, filters.title)
    /\ "minSalary" \in DOMAIN filters =>
         row.salary # Null /\ row.salary >= filters.minSalary
    /\ ("hasEquity" \in DOMAIN filters /\ filters.hasEquity = TRUE) =>
         row.equity # Null /\ row.equity > 0

Record(row) ==
    [id |-> row.id, title |-> row.title, salary |-> row.salary,
     equity |-> row.equity, companyHandle |-> row.company_handle]

\* C10: for every table and every subset of the filters title, minSalary and
\* hasEquity, findFiltered returns exactly the jobs that satisfy all the
\* predicates present (title: substring of the job title whatever the case;
\* minSalary: salary >= the value; hasEquity true: equity > 0), each once.
C10_ReturnsExactlyTheMatches ==
    last.op = "findFiltered" =>
        /\ Range(last.out.value)
             = {Record(r) : r \in {x \in Range(last.pre) : Satisfies(x, last.filters)}}
        /\ Len(last.out.value) = Cardinality(Range(last.out.value))

\* the filters object without the key k
WithoutKey(filters, k) == [x \in DOMAIN filters \ {k} |-> filters[x]]

HasEquityTrue(filters) ==
    "hasEquity" \in DOMAIN filters /\ filters.hasEquity = TRUE

PositiveEquity(job) == job.equity # Null /\ job.equity > 0

\* C11: findFiltered with hasEquity true returns every job with equity > 0
\* (that the other filters admit) and no job whose equity is zero or null;
\* with hasEquity false or absent it returns the same jobs as the call
\* without the hasEquity key.
C11_HasEquityOnlyWhenTrue ==
    last.op = "findFiltered" =>
        LET rest == JobFindFiltered(last.pre,
                                    WithoutKey(last.filters, "hasEquity")).value
        IN  /\ HasEquityTrue(last.filters) =>
                  /\ last.out.value = SelectSeq(rest, PositiveEquity)
                  /\ \A job \in Range(last.out.value) : PositiveEquity(job)
            /\ (HasEquityTrue(last.filters)
                  /\ DOMAIN last.filters = {"hasEquity"}) =>
                  Range(last.out.value)
                    = {Record(r) : r \in {x \in Range(last.pre) :
                                             x.equity # Null /\ x.equity > 0}}
            /\ ~HasEquityTrue(last.filters) => last.out.value = rest

\* hasEquity true on a table holding a job with equity and a job without
C11_Witness ==
    /\ last.op = "findFiltered"
    /\ DOMAIN last.filters = {"hasEquity"}
    /\ last.filters.hasEquity = TRUE
    /\ \E r \in Range(last.pre) : r.equity = 0
    /\ \E r \in Range(last.pre) : r.equity > 0
    /\ Len(last.out.value) = 1

\* C12: findFiltered with no filters (no argument, or an empty object) does
\* what findAll does: the same jobs in the same companyHandle order, from a
\* statement with no WHERE clause and no parameters.
C12_NoFiltersIsFindAll ==
    (last.op = "findFiltered" /\ DOMAIN last.filters = {}) =>
        /\ last.out.value = JobFindAll(last.pre).value
        /\ last.out.stmts = JobFindAll(last.pre).stmts
        /\ Len(last.out.stmts) = 1
        /\ last.out.stmts[1].where = <<>>
        /\ last.out.stmts[1].params = <<>>
        /\ last.out.err = "none"

\* no filters on a table whose rows are stored in another order than the
\* order of their company handles
C12_Witness ==
    /\ last.op = "findFiltered"
    /\ DOMAIN last.filters = {}
    /\ Len(last.pre) = 2
    /\ HandleRank(last.pre[1].company_handle)
         > HandleRank(last.pre[2].company_handle)
    /\ Len(last.out.value) = 2
    /\ last.out.value[1].id = last.pre[2].id

Ascending(jobList) ==
    \A i, j \in 1..Len(jobList) :
        i < j => HandleRank(jobList[i].companyHandle)
                   <= HandleRank(jobList[j].companyHandle)

\* C13: the jobs findAll returns, and the jobs findFiltered returns for every
\* combination of filters, are in ascending order of companyHandle.
C13_OrderedByCompanyHandle ==
    last.op \in {"findAll", "findFiltered"} => Ascending(last.out.value)

\* a filtered read that returns two jobs of two companies, stored in
\* descending order of company handle
C13_Witness ==
    /\ last.op = "findFiltered"
    /\ "minSalary" \in DOMAIN last.filters
    /\ Len(last.pre) = 2
    /\ HandleRank(last.pre[1].company_handle)
         > HandleRank(last.pre[2].company_handle)
    /\ Len(last.out.value) = 2
    /\ last.out.value[1].companyHandle # last.out.value[2].companyHandle


(***************************************************************************)
(* Properties of the id of a job (checked under Spec).                     *)
(***************************************************************************)
\* C14: the id of a job is given by the store at create, is unique among the
\* stored jobs and never changes: after any sequence of create, update (with
\* any partialData) and remove, no two stored jobs share an id, the job a
\* create stores has the id the create returned, and an update leaves every
\* stored job with the id it had.
C14_IdUniqueAndImmutable ==
    /\ \A i, j \in 1..Len(jobs) : i # j => jobs[i].id # jobs[j].id
    /\ (last.op = "create" /\ last.out.err = "none") =>
          /\ last.out.value.id \notin Ids(last.pre)
          /\ jobs = Append(last.pre, jobs[Len(jobs)])
          /\ jobs[Len(jobs)].id = last.out.value.id
    /\ last.op = "update" =>
          /\ Len(jobs) = Len(last.pre)
          /\ \A i \in 1..Len(jobs) : jobs[i].id = last.pre[i].id


(***************************************************************************)
(* Properties of a whole remove call (checked under Spec): the steps in    *)
(* which the delete of a remove directly follows its existence read, no    *)
(* other call in between.                                                  *)
(***************************************************************************)
StatementKinds(stmts) == [i \in 1..Len(stmts) |-> stmts[i].kind]

\* C15: remove(id) on a stored job, run without interference, first reads
\* the row and then deletes it: afterwards no row has that id, every other
\* row is as it was, the call returns nothing, and a get(id) or a remove(id)
\* that follows fails with NotFound.
C15_RemoveExistingDeletes ==
    [][(RemoveReadStep /\ last.id \in Ids(jobs) /\ RemoveDeleteStep') =>
          /\ last.out.err = "none"
          /\ StatementKinds(last.out.stmts) = <<"SELECT">>
          /\ jobs = last.pre
          /\ last'.id = last.id
          /\ StatementKinds(last'.out.stmts) = <<"DELETE">>
          /\ last.id \notin Ids(jobs')
          /\ Len(jobs') = Len(jobs) - 1
          /\ \A r \in Range(jobs) : r.id # last.id => r \in Range(jobs')
          /\ \A i, j \in 1..Len(jobs') :
                i < j => RowIndex(jobs, jobs'[i].id) < RowIndex(jobs, jobs'[j].id)
          /\ last'.out.err = "none"
          /\ "value" \notin DOMAIN last'.out
          /\ JobGet(jobs', last.id).err = "NotFound"
          /\ JobRemoveRead(jobs', last.id).err = "NotFound"
      ]_vars

\* a remove that deleted one of two stored jobs
C15_Witness ==
    /\ RemoveDeleteStep
    /\ Len(last.pre) = 2
    /\ last.id \in Ids(last.pre)
    /\ Len(jobs) = 1
    /\ last.out.deleted = 1


(***************************************************************************)
(* The statements findFiltered and update send.  A statement is built from *)
(* the arguments of the call alone, so the calls are taken on the tables   *)
(* creates built.                                                          *)
(***************************************************************************)
CreateOnBuilt == TableJustBuilt /\ CreateForFind

UpdateOnBuilt == TableJustBuilt /\ Update

StatementsNext == CreateOnBuilt \/ UpdateOnBuilt \/ FindFiltered

SpecStatements == Init /\ [][StatementsNext]_vars

\* the parameters and the tests the filters present ask for, in the order of
\* the three if statements
ExpectedParams(filters) ==
    (IF "title" \in DOMAIN filters
     THEN <<(<<"%">> \o filters.title \o <<"%">>)>> ELSE <<>>)
    \o (IF "minSalary" \in DOMAIN filters
        THEN <<filters.minSalary>> ELSE <<>>)
    \o (IF HasEquityTrue(filters) THEN <<0>> ELSE <<>>)

ExpectedTests(filters) ==
    (IF "title" \in DOMAIN filters THEN <<"title ILIKE">> ELSE <<>>)
    \o (IF "minSalary" \in DOMAIN filters THEN <<"salary >=">> ELSE <<>>)
    \o (IF HasEquityTrue(filters) THEN <<"equity >">> ELSE <<>>)

IndexOfKey(data, k) == (CHOOSE i \in 1..Len(data) : data[i].key = k)

\* C16: placeholders and parameters are aligned in every statement built.
\* findFiltered, for each of the 8 subsets of {title, minSalary, hasEquity}:
\* the k-th WHERE expression uses $k, the k-th parameter is the value of
\* that filter (%title% for title, minSalary, 0 for hasEquity) and there are
\* as many parameters as WHERE expressions.  update with n keys in
\* partialData: the i-th assignment uses $i, the parameters are the n values
\* followed by id, and the WHERE clause uses $(n+1).
C16_StatementsAligned ==
    /\ last.op = "findFiltered" =>
          LET stmt == last.out.stmts[1]
          IN  /\ Len(stmt.params) = Len(stmt.where)
              /\ \A k \in 1..Len(stmt.where) : stmt.where[k].ph = k
              /\ [k \in 1..Len(stmt.where) |-> stmt.where[k].test]
                    = ExpectedTests(last.filters)
              /\ stmt.params = ExpectedParams(last.filters)
    /\ (last.op = "update" /\ last.data # <<>>) =>
          LET stmt == last.out.stmts[1]
              n    == Cardinality(DataKeys(last.data))
          IN  /\ Len(stmt.set) = n
              /\ Len(stmt.params) = n + 1
              /\ stmt.whereIdx = n + 1
              /\ stmt.params[n + 1] = last.id
              /\ \A i \in 1..n :
                    /\ stmt.set[i].ph = i
                    /\ stmt.params[i]
                         = last.data[IndexOfKey(last.data, stmt.set[i].key)].val

\* findFiltered with the three filters, and so three placeholders
C16_Witness ==
    /\ last.op = "findFiltered"
    /\ DOMAIN last.filters = {"title", "minSalary", "hasEquity"}
    /\ last.filters.hasEquity = TRUE
    /\ last.filters.title # <<>>
    /\ Len(last.out.stmts[1].params) = 3
    /\ last.out.stmts[1].where[3].ph = 3

====
